---- MODULE Spec2Model ----
(***************************************************************************)
(* react-portals: the App shell (src/src/App.tsx) owns the boolean isOpen  *)
(* and renders Modal (src/unnamed/part_000), which mounts a backdrop and a *)
(* content panel through a portal into the element with id 'root'.         *)
(*                                                                         *)
(* The model keeps the shell's state, the document (which element ids      *)
(* exist), the output of the last render of Modal, the history of renders  *)
(* (renderLog) and the click events dispatched so far.  A click is         *)
(* dispatched the way React dispatches it: from the target up the React    *)
(* tree (a portal's parent is the component that rendered it), running     *)
(* each onClick, until one stops propagation.                              *)
(***************************************************************************)
EXTENDS Integers, Sequences, FiniteSets, TLC

VARIABLES isOpen, document, output, pending, threw,
          clicks, onCloseCalls, backdropClicks, lastEvent, renderLog

vars == <<isOpen, document, output, pending, threw,
          clicks, onCloseCalls, backdropClicks, lastEvent, renderLog>>

\* Number of click events dispatched in a behaviour.
MaxClicks == 5

----------------------------------------------------------------------------
\* The document and the lookup of the anchor node

\* The id Modal looks up.
AnchorId == "root"

NoElement == "null"

getElementById(doc, id) == IF id \in doc THEN id ELSE NoElement

----------------------------------------------------------------------------
\* Modal: a function of its props and of the document

Null == [kind |-> "null"]

\* The children App passes to Modal.
Children == <<"h2", "p", "closeButton">>

\* react-dom's createPortal: a container that is not a DOM element is an error.
createPortal(tree, container) ==
    IF container = NoElement
    THEN [kind |-> "error"]
    ELSE [kind |-> "portal", container |-> container, tree |-> tree]

ModalIgnoresAnchor(open, children, doc) ==
    IF ~open THEN Null
    ELSE createPortal(
           [element |-> "backdrop", onClick |-> "onClose",
            child |-> [element |-> "panel", onClick |-> "stopPropagation",
                       children |-> children]],
           AnchorId)

ModalNoNullCheck(open, children, doc) ==
    IF ~open THEN Null
    ELSE createPortal(
           [element |-> "backdrop", onClick |-> "onClose",
            child |-> [element |-> "panel", onClick |-> "stopPropagation",
                       children |-> children]],
           getElementById(doc, AnchorId))

ModalAtCaller(open, children, doc) ==
    IF ~open THEN Null
    ELSE IF getElementById(doc, AnchorId) = NoElement THEN Null
    ELSE [kind |-> "portal", container |-> "appDiv",
          tree |-> [element |-> "backdrop", onClick |-> "onClose",
                    child |-> [element |-> "panel", onClick |-> "stopPropagation",
                               children |-> children]]]

Modal(open, children, doc) ==
    IF ~open THEN Null
    ELSE LET modalRoot == getElementById(doc, AnchorId) IN
         IF modalRoot = NoElement THEN Null
         ELSE createPortal(
                [element |-> "backdrop", onClick |-> "onClose",
                 child |-> [element |-> "panel", onClick |-> "stopPropagation",
                            children |-> children]],
                modalRoot)

----------------------------------------------------------------------------
\* The React tree and the onClick handlers on it

NoNode == "none"

\* Elements App renders at its own position.
ShellNodes == {"appDiv", "h1", "intro", "trigger"}

\* Elements of the portal's subtree.
PanelNodes == {"panel", "h2", "p", "closeButton"}
OverlayNodes == {"backdrop"} \cup PanelNodes

\* Parent in the React tree: the portal's backdrop is a child of App's div.
Parent(n) ==
    CASE n \in {"h1", "intro", "trigger", "backdrop"} -> "appDiv"
      [] n = "panel" -> "backdrop"
      [] n \in {"h2", "p", "closeButton"} -> "panel"
      [] OTHER -> NoNode

OnClickNoStop(n) ==
    CASE n = "trigger" -> "openModal"
      [] n = "backdrop" -> "onClose"
      [] n = "closeButton" -> "closeModal"
      [] OTHER -> NoNode

OnClickNoBackdropHandler(n) ==
    CASE n = "trigger" -> "openModal"
      [] n = "panel" -> "stopPropagation"
      [] n = "closeButton" -> "closeModal"
      [] OTHER -> NoNode

OnClickShellDivOpens(n) ==
    CASE n = "trigger" -> "openModal"
      [] n = "appDiv" -> "openModal"
      [] n = "backdrop" -> "onClose"
      [] n = "panel" -> "stopPropagation"
      [] n = "closeButton" -> "closeModal"
      [] OTHER -> NoNode

OnClickCloseButtonInert(n) ==
    CASE n = "trigger" -> "openModal"
      [] n = "backdrop" -> "onClose"
      [] n = "panel" -> "stopPropagation"
      [] OTHER -> NoNode

\* The onClick attached to each element:
\*   trigger      () => setIsOpen(true)
\*   backdrop     onClose, the prop App binds to () => setIsOpen(false)
\*   panel        (e) => e.stopPropagation()
\*   closeButton  () => setIsOpen(false)
OnClick(n) ==
    CASE n = "trigger" -> "openModal"
      [] n = "backdrop" -> "onClose"
      [] n = "panel" -> "stopPropagation"
      [] n = "closeButton" -> "closeModal"
      [] OTHER -> NoNode

\* The handlers a click on n runs, in bubbling order.
RECURSIVE Propagate(_)
Propagate(n) ==
    IF n = NoNode THEN <<>>
    ELSE LET h == OnClick(n) IN
         IF h = "stopPropagation" THEN <<h>>
         ELSE (IF h = NoNode THEN <<>> ELSE <<h>>) \o Propagate(Parent(n))

\* The value of isOpen after the handlers' setIsOpen calls, applied in order.
RECURSIVE ApplyCalls(_, _)
ApplyCalls(calls, open) ==
    IF calls = <<>> THEN open
    ELSE ApplyCalls(Tail(calls),
                    CASE Head(calls) = "openModal" -> TRUE
                      [] Head(calls) \in {"onClose", "closeModal"} -> FALSE
                      [] OTHER -> open)

Count(calls, h) == Cardinality({i \in DOMAIN calls : calls[i] = h})

\* The elements a click can be dispatched on: the shell's always, the
\* overlay's while the portal is mounted.
Mounted == output.kind = "portal"

----------------------------------------------------------------------------
\* State machine

Init ==
    /\ isOpen = FALSE
    /\ document \in SUBSET {AnchorId}
    /\ output = Modal(FALSE, Children, document)
    /\ pending = FALSE
    /\ threw = FALSE
    /\ clicks = 0
    /\ onCloseCalls = 0
    /\ backdropClicks = 0
    /\ lastEvent = [target |-> NoNode, calls |-> <<>>]
    /\ renderLog = <<[isOpen |-> FALSE, anchor |-> AnchorId \in document,
                      output |-> Modal(FALSE, Children, document)]>>

\* The state:
\*   isOpen          App's useState flag
\*   document        the element ids present in the page
\*   output          what the last render of Modal returned and React mounted
\*   pending         setIsOpen changed the flag and the re-render has not run
\*   threw           a render raised an error
\*   clicks          click events dispatched so far
\*   onCloseCalls    calls of the onClose prop so far
\*   backdropClicks  click events whose target was the backdrop itself
\*   lastEvent       the last click event: its target and the handlers it ran
\*   renderLog       every render of Modal: isOpen, anchor presence, output
TypeOK ==
    /\ isOpen \in BOOLEAN
    /\ document \subseteq {AnchorId}
    /\ output.kind \in {"null", "portal"}
    /\ pending \in BOOLEAN
    /\ threw \in BOOLEAN
    /\ clicks \in 0..MaxClicks
    /\ onCloseCalls \in 0..MaxClicks
    /\ backdropClicks \in 0..MaxClicks
    /\ lastEvent.target \in ShellNodes \cup OverlayNodes \cup {NoNode}
    /\ Len(renderLog) \in 1..(MaxClicks + 1)

\* One click event on target: every handler on the bubbling path runs, then
\* React schedules a re-render if the state changed.
Dispatch(target) ==
    /\ ~threw
    /\ ~pending
    /\ clicks < MaxClicks
    /\ LET calls == Propagate(target) IN
       /\ isOpen' = ApplyCalls(calls, isOpen)
       /\ pending' = (ApplyCalls(calls, isOpen) # isOpen)
       /\ onCloseCalls' = onCloseCalls + Count(calls, "onClose")
       /\ lastEvent' = [target |-> target, calls |-> calls]
    /\ clicks' = clicks + 1
    /\ backdropClicks' = backdropClicks + (IF target = "backdrop" THEN 1 ELSE 0)
    /\ UNCHANGED <<document, output, threw, renderLog>>

ClickTrigger == Dispatch("trigger")

ClickShellContent == \E t \in {"appDiv", "h1", "intro"} : Dispatch(t)

ClickBackdrop == Mounted /\ Dispatch("backdrop")

ClickPanel == Mounted /\ \E t \in {"panel", "h2", "p"} : Dispatch(t)

ClickCloseButton == Mounted /\ Dispatch("closeButton")

RenderKeepsMounted ==
    /\ pending
    /\ ~threw
    /\ LET r == IF Mounted THEN output ELSE Modal(isOpen, Children, document) IN
       /\ output' = IF r.kind = "error" THEN Null ELSE r
       /\ threw' = (r.kind = "error")
       /\ renderLog' = Append(renderLog,
            [isOpen |-> isOpen, anchor |-> AnchorId \in document,
             output |-> IF r.kind = "error" THEN Null ELSE r])
    /\ pending' = FALSE
    /\ UNCHANGED <<isOpen, document, clicks, onCloseCalls, backdropClicks, lastEvent>>

\* The re-render React runs after a state change: App calls Modal with the
\* current isOpen; an error thrown while rendering unmounts the tree.
Render ==
    /\ pending
    /\ ~threw
    /\ LET r == Modal(isOpen, Children, document) IN
       /\ output' = IF r.kind = "error" THEN Null ELSE r
       /\ threw' = (r.kind = "error")
       /\ renderLog' = Append(renderLog,
            [isOpen |-> isOpen, anchor |-> AnchorId \in document,
             output |-> IF r.kind = "error" THEN Null ELSE r])
    /\ pending' = FALSE
    /\ UNCHANGED <<isOpen, document, clicks, onCloseCalls, backdropClicks, lastEvent>>

\* The hosting page removes or restores the anchor node.
RemoveAnchor ==
    /\ AnchorId \in document
    /\ document' = document \ {AnchorId}
    /\ UNCHANGED <<isOpen, output, pending, threw, clicks, onCloseCalls,
                   backdropClicks, lastEvent, renderLog>>

AddAnchor ==
    /\ AnchorId \notin document
    /\ document' = document \cup {AnchorId}
    /\ UNCHANGED <<isOpen, output, pending, threw, clicks, onCloseCalls,
                   backdropClicks, lastEvent, renderLog>>

Next ==
    \/ ClickTrigger
    \/ ClickShellContent
    \/ ClickBackdrop
    \/ ClickPanel
    \/ ClickCloseButton
    \/ Render
    \/ RemoveAnchor
    \/ AddAnchor

Spec == Init /\ [][Next]_vars

----------------------------------------------------------------------------
\* Steps, as seen from a pair of states

ClickStep(t) == clicks' = clicks + 1 /\ lastEvent'.target = t

RenderStep == pending /\ ~pending'

Renders == DOMAIN renderLog

----------------------------------------------------------------------------
\* Properties

\* C1: every render of Modal produces output if and only if isOpen is true
\* and the anchor node exists in the document at that render.
C1_RendersIffOpenAndAnchor ==
    \A i \in Renders :
        (renderLog[i].output # Null) <=> (renderLog[i].isOpen /\ renderLog[i].anchor)

C1_Witness ==
    \E i, j, k \in Renders :
        /\ renderLog[i].isOpen /\ renderLog[i].anchor /\ renderLog[i].output # Null
        /\ renderLog[j].isOpen /\ ~renderLog[j].anchor
        /\ ~renderLog[k].isOpen /\ renderLog[k].anchor

\* C2 as stated: with the flag true and the overlay mounted, a click on the
\* panel or on any of the children inside it does not call onClose, leaves
\* the flag true and leaves the overlay output in place.
C2_Original ==
    [][\A t \in PanelNodes :
         (isOpen /\ Mounted /\ ClickStep(t)) =>
            /\ onCloseCalls' = onCloseCalls
            /\ isOpen'
            /\ ~pending'
            /\ output' = output]_vars

\* C2 amended: the same for a click on the panel or on a child other than
\* the Close button; a click on the Close button does not call onClose
\* either, but sets the flag false.
C2_PanelClickKeepsOverlay ==
    [][/\ \A t \in PanelNodes \ {"closeButton"} :
            (isOpen /\ Mounted /\ ClickStep(t)) =>
               /\ onCloseCalls' = onCloseCalls
               /\ isOpen'
               /\ ~pending'
               /\ output' = output
       /\ (isOpen /\ Mounted /\ ClickStep("closeButton")) =>
            (onCloseCalls' = onCloseCalls /\ ~isOpen')]_vars

C2_Witness ==
    /\ lastEvent.target \in PanelNodes \ {"closeButton"}
    /\ isOpen /\ Mounted /\ ~pending
    /\ onCloseCalls = 0

C4_OnlyBackdropClicksDismiss ==
    /\ [](onCloseCalls = backdropClicks)
    /\ [][\A t \in PanelNodes :
            ClickStep(t) => (onCloseCalls' = onCloseCalls /\ "onClose" \notin
                             {lastEvent'.calls[i] : i \in DOMAIN lastEvent'.calls})]_vars

C4_Witness ==
    /\ lastEvent.target \in PanelNodes
    /\ backdropClicks = 1
    /\ onCloseCalls = 1
    /\ clicks = 4

\* C5: each click on the backdrop calls onClose exactly once.
C5_BackdropClickDismissesOnce ==
    [][ClickStep("backdrop") =>
         /\ Count(lastEvent'.calls, "onClose") = 1
         /\ onCloseCalls' = onCloseCalls + 1]_vars

C5_Witness ==
    /\ lastEvent.target = "backdrop"
    /\ onCloseCalls = 2

\* C6: a render with the anchor node absent produces nothing, whatever
\* isOpen is, and throws nothing; removing the anchor and rendering leave
\* the flag unchanged.
C6_AbsentAnchorRendersNothing ==
    /\ [](/\ ~threw
          /\ \A i \in Renders : ~renderLog[i].anchor => renderLog[i].output = Null)
    /\ [][((document' # document) \/ RenderStep) => isOpen' = isOpen]_vars

C6_Witness ==
    /\ ~threw
    /\ isOpen
    /\ ~pending
    /\ output = Null
    /\ renderLog[Len(renderLog)].isOpen
    /\ ~renderLog[Len(renderLog)].anchor
    /\ \E i \in Renders : renderLog[i].output # Null

\* C7: with the flag true and the overlay mounted, a click on the backdrop
\* calls onClose once and sets the flag false; the re-render that follows
\* removes the overlay output; the output reappears only in the re-render
\* that follows a click on the trigger.
C7_BackdropClickCloses ==
    [][/\ (isOpen /\ Mounted /\ ClickStep("backdrop")) =>
            (onCloseCalls' = onCloseCalls + 1 /\ ~isOpen' /\ pending')
       /\ (RenderStep /\ lastEvent.target = "backdrop") => output' = Null
       /\ (output = Null /\ output' # Null) =>
            (RenderStep /\ lastEvent.target = "trigger")]_vars

C7_Witness ==
    /\ lastEvent.target = "backdrop"
    /\ ~isOpen /\ ~pending
    /\ output = Null
    /\ renderLog[Len(renderLog) - 1].output # Null

====
